---- MODULE Spec2Model ----
(***************************************************************************)
(* Model of hypnothera_community_manager.py: the daily routine of          *)
(* HypnotheraCommunityManager (run_daily_routine and the methods it        *)
(* calls), the state file it reads and writes, and the browser session it  *)
(* drives.  One invocation of main() is one process: a fresh manager       *)
(* object, one call of run_daily_routine.                                  *)
(***************************************************************************)
EXTENDS Integers, Sequences, FiniteSets, TLC

(* ------------------------------ bounds --------------------------------- *)
\* invocations of main() in one behaviour
MaxRuns == 2
\* midnights that pass in one behaviour
MaxDays == 1
\* posts the newest listing shows
MaxListing == 2
\* comments one post page shows
MaxComments == 2
\* largest max_replies handed to reply_to_comments when it is called directly
MaxK == 3

(* ------------------------- program constants --------------------------- *)
\* datetime.now().hour < 12
NoonHour == 12
\* datetime.now().hour >= 14
AfternoonHour == 14
\* self.reply_to_comments(max_replies=3)
RoutineMaxReplies == 3
\* find_elements(...)[:10]
PostWindow == 10

\* the hours of a day the model distinguishes: the hours on both sides of the
\* two hours the routine compares with (12 and 14)
Hours == {11, 12, 13, 14}
StartDates == 1 .. 7
DayNames == <<"monday", "tuesday", "wednesday", "thursday", "friday", "saturday", "sunday">>

\* datetime.now().strftime('%A').lower(); date 1 is a monday
DayName(date) == DayNames[((date - 1) % 7) + 1]

WEEKLY_THREADS ==
  << [day |-> "monday", flair |-> "Discussion", pin |-> TRUE],
     [day |-> "wednesday", flair |-> "Discussion", pin |-> FALSE],
     [day |-> "friday", flair |-> "Featured", pin |-> TRUE] >>

DAILY_CONTENT_TEMPLATES ==
  << [type |-> "tip", flair |-> "Tips & Tricks"],
     [type |-> "success_story", flair |-> "Success Story"],
     [type |-> "question", flair |-> "Discussion"],
     [type |-> "feature_highlight", flair |-> "Announcement"] >>

Min(a, b) == IF a <= b THEN a ELSE b

(* ------------------------- dictionaries -------------------------------- *)
\* a Python dict is a function whose domain is its set of keys
EmptyDict == [k \in {} |-> 0]

HasKey(d, k) == k \in DOMAIN d

\* d[k] = v
Put(d, k, v) == [x \in (DOMAIN d) \cup {k} |-> IF x = k THEN v ELSE d[x]]

(* ------------------------- the state file ------------------------------ *)
\* kind: "missing" (no file), "garbled" (unreadable or not JSON),
\* "nondict" (JSON, but not an object), "dict" (a JSON object, in items)
NoFile == [kind |-> "missing", items |-> EmptyDict]
GarbledFile == [kind |-> "garbled", items |-> EmptyDict]
NonDictFile == [kind |-> "nondict", items |-> EmptyDict]
DictFile(d) == [kind |-> "dict", items |-> d]

\* load_state: what json.loads returned, {} when the file is missing or the
\* read or the parse raised
load_state(f) ==
  CASE f.kind = "dict" -> [isdict |-> TRUE, items |-> f.items]
    [] f.kind = "nondict" -> [isdict |-> FALSE, items |-> EmptyDict]
    [] OTHER -> [isdict |-> TRUE, items |-> EmptyDict]

\* save_state: write_text either replaces the file, fails before touching it,
\* or fails after truncating it; the exception is logged, never raised
SaveOutcomes == {"written", "open_failed", "write_failed"}

\* (a write that reports success and leaves the file as it was)
save_state_unwritten(f, d, how) == IF how = "write_failed" THEN GarbledFile ELSE f

save_state(f, d, how) ==
  CASE how = "written" -> DictFile(d)
    [] how = "open_failed" -> f
    [] OTHER -> GarbledFile

\* state.get('last_run') == today and not self.dry_run
AlreadyRanOtherKey(d, date, dry) ==
  HasKey(d, "last_run_date") /\ d["last_run_date"] = date /\ ~dry

AlreadyRan(d, date, dry) == HasKey(d, "last_run") /\ d["last_run"] = date /\ ~dry

VARIABLES
  clock,        \* the local time: [date, hour]
  file,         \* community_manager_state.json
  browser,      \* Chrome sessions of the running process: [opened, quit]
  pc,           \* where the process is in run_daily_routine
  dry_run,      \* self.dry_run
  driver,       \* self.driver: "None" or "session"
  errors,       \* len(self.errors)
  state,        \* the local state of run_daily_routine (a dict)
  today,        \* the local today (a date)
  today_name,   \* the local today_name
  posts_made,   \* the local posts_made
  widx,         \* the index of the weekly loop of line 549
  reply,        \* the locals of reply_to_comments and what it has met so far
  runs,         \* invocations so far
  days,         \* midnights so far
  outcome,      \* how the latest invocation ended, "running" while it runs
  filePre,      \* the file when the latest invocation started
  calls,        \* what the latest invocation has called so far
  history       \* what the invocations so far went through

vars == <<clock, file, browser, pc, dry_run, driver, errors, state, today, today_name,
          posts_made, widx, reply, runs, days, outcome, filePre, calls, history>>

\* weekly, weekly_ok: the WEEKLY_THREADS indices create_post was called for, and
\* returned success for; daily, daily_ok: the same counts for the daily post;
\* save_state: how the write went; driver_used: the browser was started or
\* driven; weekly_hour: the hour the weekly loop started at
NoCalls ==
  [setup_browser |-> 0, login |-> 0, weekly |-> {}, weekly_ok |-> {}, daily |-> 0,
   daily_ok |-> 0, reply_to_comments |-> 0, save_state |-> "no",
   driver_used |-> FALSE, weekly_hour |-> -1]

\* post_urls, comments: the posts and the comments of the current post still
\* to visit; caught: an exception was caught inside the method. When the method
\* is called on its own the pages are watched: attempts counts the replies
\* tried, eligible the eligible comments among the comments of the posts whose
\* page was loaded, upset tells what raised while a comment was handled
\* ("lookup": finding its author or its reply thread, "reply": replying).
NoReply ==
  [rpc |-> "none", max_replies |-> 0, post_urls |-> 0, comments |-> 0,
   replies_made |-> 0, caught |-> FALSE, watched |-> FALSE, attempts |-> 0,
   eligible |-> 0, upset |-> {}]

NoBrowser == [opened |-> 0, quit |-> 0]

\* passed: the dates on which an invocation passed login and came back from the
\* weekly loop, the daily step and reply_to_comments. date: the invocations of
\* the current date so far: "dry" when one was a dry run, else "saved" or
\* "unsaved" when the latest that reached the end of the routine had its state
\* write succeed or fail, else "fresh"
NoHistory == [passed |-> {}, date |-> "fresh"]

Init ==
  /\ clock \in [date : StartDates, hour : Hours]
  /\ file \in {NoFile, NonDictFile}
  /\ browser = NoBrowser
  /\ pc = "idle"
  /\ dry_run = FALSE
  /\ driver = "None"
  /\ errors = 0
  /\ state = EmptyDict
  /\ today = 0
  /\ today_name = "none"
  /\ posts_made = 0
  /\ widx = 1
  /\ reply = NoReply
  /\ runs = 0
  /\ days = 0
  /\ outcome = "none"
  /\ filePre = file
  /\ calls = NoCalls
  /\ history = NoHistory

(* ------------------------------ time ----------------------------------- *)
\* between two invocations the clock moves on within the day
Tick ==
  /\ pc = "idle"
  /\ runs > 0
  /\ \E h \in Hours : h > clock.hour /\ clock' = [clock EXCEPT !.hour = h]
  /\ UNCHANGED <<file, browser, pc, dry_run, driver, errors, state, today, today_name,
                 posts_made, widx, reply, runs, days, outcome, filePre, calls, history>>

\* ... or over midnight
NextDay ==
  /\ pc = "idle"
  /\ runs > 0
  /\ days < MaxDays
  /\ days' = days + 1
  /\ \E h \in Hours : clock' = [date |-> clock.date + 1, hour |-> h]
  /\ history' = [NoHistory EXCEPT !.passed = history.passed]
  /\ UNCHANGED <<file, browser, pc, dry_run, driver, errors, state, today, today_name,
                 posts_made, widx, reply, runs, outcome, filePre, calls>>

(* ------------------ main() and run_daily_routine ----------------------- *)
\* main() builds a manager (__init__) and calls run_daily_routine, which loads
\* the state and returns at once when it already ran today (lines 523-532).
\* state.get on a JSON value that is no object raises before the try block.
Invoke ==
  /\ pc = "idle"
  /\ runs < MaxRuns
  /\ runs' = runs + 1
  /\ \E dry \in BOOLEAN :
       LET loaded == load_state(file) IN
       /\ dry_run' = dry
       /\ driver' = "None"
       /\ errors' = 0
       /\ browser' = NoBrowser
       /\ filePre' = file
       /\ calls' = NoCalls
       /\ state' = loaded.items
       /\ today' = clock.date
       /\ posts_made' = 0
       /\ widx' = 1
       /\ reply' = NoReply
       /\ IF ~loaded.isdict
            THEN /\ outcome' = "raised"
                 /\ pc' = "done"
                 /\ today_name' = "none"
            ELSE IF AlreadyRan(loaded.items, clock.date, dry)
                   THEN /\ outcome' = "skipped"
                        /\ pc' = "done"
                        /\ today_name' = "none"
                   ELSE /\ outcome' = "running"
                        /\ pc' = "setup"
                        /\ today_name' = DayName(clock.date)
  /\ UNCHANGED <<clock, file, days, history>>

\* setup_browser (line 536): webdriver.Chrome may raise (no session), the CDP
\* command may raise after Chrome started (a session that self.driver never
\* names), or the session is returned and stored in self.driver
SetupOutcomes == {"no_chrome", "cdp_raised", "session"}

SetupBrowser ==
  /\ pc = "setup"
  /\ \E how \in SetupOutcomes :
       /\ calls' = [calls EXCEPT !.setup_browser = @ + 1,
                                 !.driver_used = (how # "no_chrome")]
       /\ browser' = [browser EXCEPT !.opened = @ + (IF how = "no_chrome" THEN 0 ELSE 1)]
       /\ driver' = IF how = "session" THEN "session" ELSE "None"
       /\ pc' = IF how = "session" THEN "login" ELSE "finally"
       /\ outcome' = IF how = "session" THEN outcome ELSE "raised"
  /\ UNCHANGED <<clock, file, dry_run, errors, state, today, today_name, posts_made,
                 widx, reply, runs, days, filePre, history>>

\* login (lines 539-546, 254-295): True; False from the URL check or from the
\* caught exception; or driver.get, outside the try, raises
LoginOutcomes == {"true", "false_url", "false_caught", "raised"}

\* (a routine that goes on when login returned False)
AfterLoginUnchecked(how) == IF how = "raised" THEN "finally" ELSE "weekly"

\* if not self.login(): return (lines 542-544)
AfterLogin(how) == IF how = "true" THEN "weekly" ELSE "finally"

Login ==
  /\ pc = "login"
  /\ \E how \in LoginOutcomes :
       /\ calls' = [calls EXCEPT !.login = @ + 1, !.driver_used = TRUE,
                                 !.weekly_hour = IF how = "true" THEN clock.hour ELSE @]
       /\ pc' = AfterLogin(how)
       /\ outcome' = CASE how = "true" -> outcome
                       [] how = "raised" -> "raised"
                       [] OTHER -> "login_failed"
  /\ posts_made' = 0
  /\ widx' = 1
  /\ UNCHANGED <<clock, file, browser, dry_run, driver, errors, state, today, today_name,
                 reply, runs, days, filePre, history>>

(* ----------------------------- posting --------------------------------- *)
\* create_post (lines 297-380): in a dry run it logs and returns success; else
\* the URL check passes (and pin_post runs for a pinned post, catching its own
\* errors), the URL check fails, or an exception is caught and recorded
PostOutcomes == {"posted", "url_check_failed", "caught"}

create_post(dry, post, how) ==
  IF dry
    THEN [success |-> TRUE, errors |-> 0, driven |-> FALSE, pinned |-> FALSE]
    ELSE CASE how = "posted" ->
                [success |-> TRUE, errors |-> 0, driven |-> TRUE, pinned |-> post.pin]
           [] how = "url_check_failed" ->
                [success |-> FALSE, errors |-> 0, driven |-> TRUE, pinned |-> FALSE]
           [] OTHER ->
                [success |-> FALSE, errors |-> 1, driven |-> TRUE, pinned |-> FALSE]

\* CommunityPost(..., post_type='weekly', flair=weekly['flair'], pin=weekly['pin'])
weekly_post(w) == [post_type |-> "weekly", flair |-> w.flair, pin |-> w.pin]

\* generate_daily_post: the post of the template random.choice picked
generate_daily_post(t) == [post_type |-> t.type, flair |-> t.flair, pin |-> FALSE]

\* weekly['day'] == today_name and datetime.now().hour < 12
WeeklyDueAnyHour(w, name, hour) == w.day = name

WeeklyDue(w, name, hour) == w.day = name /\ hour < NoonHour

\* posts_made == 0 or datetime.now().hour >= 14
DailyDueAnd(made, hour) == made = 0 /\ hour >= AfternoonHour

DailyDue(made, hour) == made = 0 \/ hour >= AfternoonHour

\* one iteration of the weekly loop (lines 549-567); the cooldown after a post
\* is where the clock moves on
WeeklyThread ==
  /\ pc = "weekly"
  /\ LET w == WEEKLY_THREADS[widx] IN
       IF WeeklyDue(w, today_name, clock.hour)
         THEN \E how \in PostOutcomes, h \in Hours :
                LET r == create_post(dry_run, weekly_post(w), how) IN
                /\ h >= clock.hour
                /\ clock' = [clock EXCEPT !.hour = h]
                /\ posts_made' = posts_made + (IF r.success THEN 1 ELSE 0)
                /\ errors' = errors + r.errors
                /\ calls' = [calls EXCEPT
                               !.weekly = @ \cup {widx},
                               !.weekly_ok = @ \cup (IF r.success THEN {widx} ELSE {}),
                               !.driver_used = @ \/ r.driven]
         ELSE UNCHANGED <<clock, posts_made, errors, calls>>
  /\ IF widx < Len(WEEKLY_THREADS)
       THEN widx' = widx + 1 /\ pc' = "weekly"
       ELSE widx' = widx /\ pc' = "daily"
  /\ UNCHANGED <<file, browser, dry_run, driver, state, today, today_name, reply, runs,
                 days, outcome, filePre, history>>

\* the daily post (lines 569-577) and the call of line 580
DailyPost ==
  /\ pc = "daily"
  /\ IF DailyDue(posts_made, clock.hour)
       THEN \E t \in 1 .. Len(DAILY_CONTENT_TEMPLATES), how \in PostOutcomes :
              LET r == create_post(dry_run, generate_daily_post(DAILY_CONTENT_TEMPLATES[t]), how) IN
              /\ posts_made' = posts_made + (IF r.success THEN 1 ELSE 0)
              /\ errors' = errors + r.errors
              /\ calls' = [calls EXCEPT
                             !.daily = @ + 1,
                             !.daily_ok = @ + (IF r.success THEN 1 ELSE 0),
                             !.driver_used = @ \/ r.driven]
       ELSE UNCHANGED <<posts_made, errors, calls>>
  /\ pc' = "reply"
  /\ reply' = [NoReply EXCEPT !.rpc = "call", !.max_replies = RoutineMaxReplies]
  /\ UNCHANGED <<clock, file, browser, dry_run, driver, state, today, today_name, widx,
                 runs, days, outcome, filePre, history>>

(* ------------------------- reply_to_comments --------------------------- *)
\* a comment as the page shows it: own (written by the bot's account), author
\* (whether the author link is found), answered (it has a reply thread),
\* lookup (whether looking for its reply thread raises), reply (whether
\* clicking, typing and submitting the reply raises)
Comments ==
  [own : BOOLEAN, author : {"found", "raised"}, answered : BOOLEAN,
   lookup : {"found", "raised"}, reply : {"sent", "raised"}]

\* not written by the bot's own account and without a reply thread
Eligible(c) == ~c.own /\ ~c.answered

\* lines 455-461: the comment is skipped as the bot's own
SkippedAsOwn(c) == c.author = "found" /\ c.own

\* lines 443 and 491: the bound on replies
BoundReachedLate(made, max) == made > max

BoundReached(made, max) == made >= max

\* lines 408-416: the dry run returns; else driver.get, outside the try, loads
\* the newest listing or raises
ReplyStart ==
  /\ pc = "reply"
  /\ reply.rpc = "call"
  /\ IF dry_run
       THEN /\ reply' = [reply EXCEPT !.rpc = "return"]
            /\ calls' = [calls EXCEPT !.reply_to_comments = @ + 1]
            /\ UNCHANGED <<pc, outcome>>
       ELSE \E nav \in {"loaded", "raised"} :
              /\ calls' = [calls EXCEPT !.reply_to_comments = @ + 1, !.driver_used = TRUE]
              /\ IF nav = "loaded"
                   THEN /\ reply' = [reply EXCEPT !.rpc = "list"]
                        /\ UNCHANGED <<pc, outcome>>
                   ELSE /\ reply' = [reply EXCEPT !.rpc = "raised"]
                        /\ pc' = "finally"
                        /\ outcome' = "raised"
  /\ UNCHANGED <<clock, file, browser, dry_run, driver, errors, state, today, today_name,
                 posts_made, widx, runs, days, filePre, history>>

\* lines 420-439: the first 10 posts of the listing; a post whose link cannot be
\* read is left out; find_elements raising ends the method in the outer except
ReplyList ==
  /\ pc = "reply"
  /\ reply.rpc = "list"
  /\ \/ reply' = [reply EXCEPT !.rpc = "return", !.caught = TRUE]
     \/ \E shown \in 0 .. MaxListing :
          \E urls \in 0 .. Min(shown, PostWindow) :
            reply' = [reply EXCEPT !.rpc = "posts", !.post_urls = urls]
  /\ UNCHANGED <<clock, file, browser, pc, dry_run, driver, errors, state, today,
                 today_name, posts_made, widx, runs, days, outcome, filePre, calls, history>>

\* lines 442-452: the head of the loop over the posts: the bound, then the page
\* of the next post, whose failure to load is caught by the except of line 497
ReplyNextPost ==
  /\ pc = "reply"
  /\ reply.rpc = "posts"
  /\ IF reply.post_urls = 0 \/ BoundReached(reply.replies_made, reply.max_replies)
       THEN reply' = [reply EXCEPT !.rpc = "return"]
       ELSE \/ reply' = [reply EXCEPT !.post_urls = @ - 1, !.caught = TRUE]
            \/ \E n \in 0 .. MaxComments :
                 reply' = [reply EXCEPT !.post_urls = @ - 1, !.comments = n,
                                        !.rpc = "comments"]
  /\ UNCHANGED <<clock, file, browser, pc, dry_run, driver, errors, state, today,
                 today_name, posts_made, widx, runs, days, outcome, filePre, calls, history>>

\* lines 454-499: the next comment of the post. An exception (a lookup or the
\* reply raising) leaves the post: the except of line 497 continues with the
\* next post, and so does the break of line 492. rest: the eligible ones among
\* the comments of the post that are then never visited.
ReplyComment ==
  /\ pc = "reply"
  /\ reply.rpc = "comments"
  /\ IF reply.comments = 0
       THEN reply' = [reply EXCEPT !.rpc = "posts"]
       ELSE \E c \in Comments :
              LET e == IF reply.watched /\ Eligible(c) THEN 1 ELSE 0
                  unseen == IF reply.watched THEN reply.comments - 1 ELSE 0
                  made == reply.replies_made + 1
                  Leave(r) == \E rest \in 0 .. unseen :
                                reply' = [r EXCEPT !.comments = 0, !.rpc = "posts",
                                                   !.eligible = @ + e + rest]
                  Stay(r) == reply' = [r EXCEPT !.comments = @ - 1, !.eligible = @ + e]
                  Raised(r, what) ==
                    [r EXCEPT !.caught = TRUE,
                              !.upset = IF reply.watched THEN @ \cup {what} ELSE @]
                  met == IF c.author = "raised" THEN Raised(reply, "lookup") ELSE reply
                  tried == [met EXCEPT !.attempts = IF reply.watched THEN @ + 1 ELSE @]
              IN
              IF SkippedAsOwn(c)
                THEN Stay(met)
                ELSE IF c.lookup = "raised"
                  THEN Leave(Raised(met, "lookup"))
                  ELSE IF c.answered
                    THEN Stay(met)
                    ELSE IF c.reply = "raised"
                      THEN Leave(Raised(tried, "reply"))
                      ELSE IF BoundReached(made, reply.max_replies)
                        THEN Leave([tried EXCEPT !.replies_made = made])
                        ELSE Stay([tried EXCEPT !.replies_made = made])
  /\ UNCHANGED <<clock, file, browser, pc, dry_run, driver, errors, state, today,
                 today_name, posts_made, widx, runs, days, outcome, filePre, calls, history>>

\* lines 501-504: reply_to_comments returns to line 582
ReplyReturn ==
  /\ pc = "reply"
  /\ reply.rpc = "return"
  /\ pc' = "persist"
  /\ reply' = NoReply
  /\ history' = [history EXCEPT
                !.passed = IF calls.weekly_hour >= 0 THEN @ \cup {today} ELSE @]
  /\ UNCHANGED <<clock, file, browser, dry_run, driver, errors, state, today, today_name,
                 posts_made, widx, runs, days, outcome, filePre, calls>>

(* --------------------------- the state write --------------------------- *)
\* weekly['day'] == today_name and posts_made > 0
Tracked(w, name, made) == w.day = name /\ made > 0

\* lines 588-590: the loop over WEEKLY_THREADS from index i on
RECURSIVE TrackWeekly(_, _, _, _, _)
TrackWeekly(i, wt, name, made, stamp) ==
  IF i > Len(WEEKLY_THREADS)
    THEN wt
    ELSE TrackWeekly(i + 1,
                     IF Tracked(WEEKLY_THREADS[i], name, made)
                       THEN Put(wt, WEEKLY_THREADS[i].day, stamp)
                       ELSE wt,
                     name, made, stamp)

\* lines 583-590: the state that is handed to save_state
UpdatedState(s, date, name, made, stamp) ==
  LET s1 == Put(s, "last_run", date)
      s2 == Put(s1, "posts_made", made)
      wt == IF HasKey(s2, "weekly_threads") THEN s2["weekly_threads"] ELSE EmptyDict
  IN Put(s2, "weekly_threads", TrackWeekly(1, wt, name, made, stamp))

\* lines 582-595
Persist ==
  /\ pc = "persist"
  /\ state' = UpdatedState(state, today, today_name, posts_made, clock)
  /\ \E how \in SaveOutcomes :
       /\ file' = save_state(file, state', how)
       /\ calls' = [calls EXCEPT !.save_state = how]
  /\ pc' = "finally"
  /\ UNCHANGED <<clock, browser, dry_run, driver, errors, today, today_name, posts_made,
                 widx, reply, runs, days, outcome, filePre, history>>

\* finally: if self.driver: self.driver.quit() (lines 597-599)
Finally ==
  /\ pc = "finally"
  /\ browser' = [browser EXCEPT !.quit = @ + (IF driver = "session" THEN 1 ELSE 0)]
  /\ calls' = [calls EXCEPT !.driver_used = @ \/ (driver = "session")]
  /\ pc' = "done"
  /\ outcome' = IF outcome = "running" THEN "complete" ELSE outcome
  /\ UNCHANGED <<clock, file, dry_run, driver, errors, state, today, today_name,
                 posts_made, widx, reply, runs, days, filePre, history>>

\* the process ends (main returns, or the exception ends it): the manager and
\* its locals are gone, the file stays
Exit ==
  /\ pc = "done"
  /\ pc' = "idle"
  /\ browser' = NoBrowser
  /\ dry_run' = FALSE
  /\ driver' = "None"
  /\ errors' = 0
  /\ state' = EmptyDict
  /\ today' = 0
  /\ today_name' = "none"
  /\ posts_made' = 0
  /\ widx' = 1
  /\ reply' = NoReply
  /\ outcome' = "none"
  /\ filePre' = file
  /\ calls' = NoCalls
  /\ history' = [history EXCEPT
                   !.date = IF dry_run \/ @ = "dry" THEN "dry"
                            ELSE IF outcome # "complete" THEN @
                            ELSE IF calls.save_state = "written" THEN "saved"
                            ELSE "unsaved"]
  /\ UNCHANGED <<clock, file, runs, days>>

Next ==
  \/ Tick
  \/ NextDay
  \/ Invoke
  \/ SetupBrowser
  \/ Login
  \/ WeeklyThread
  \/ DailyPost
  \/ ReplyStart
  \/ ReplyList
  \/ ReplyNextPost
  \/ ReplyComment
  \/ ReplyReturn
  \/ Persist
  \/ Finally
  \/ Exit

Spec == Init /\ [][Next]_vars

(* ------------- reply_to_comments called on its own --------------------- *)
\* a manager with an open session whose reply_to_comments is called with a
\* bound of 0 .. MaxK
InitReply ==
  /\ clock \in [date : {1}, hour : {0}]
  /\ file = NoFile
  /\ browser = [opened |-> 1, quit |-> 0]
  /\ pc = "reply"
  /\ dry_run \in BOOLEAN
  /\ driver = "session"
  /\ errors = 0
  /\ state = EmptyDict
  /\ today = 1
  /\ today_name = DayName(1)
  /\ posts_made = 0
  /\ widx = 1
  /\ reply \in {[NoReply EXCEPT !.rpc = "call", !.max_replies = k, !.watched = TRUE] :
                  k \in 0 .. MaxK}
  /\ runs = 1
  /\ days = 0
  /\ outcome = "running"
  /\ filePre = file
  /\ calls = NoCalls
  /\ history = NoHistory

NextReply ==
  \/ ReplyStart
  \/ ReplyList
  \/ ReplyNextPost
  \/ ReplyComment
  \/ ReplyReturn

SpecReply == InitReply /\ [][NextReply]_vars

(* ------------------------------ claims --------------------------------- *)
\* weekly_threads of a state file, {} when it has none
WeeklyLog(f) ==
  IF f.kind = "dict" /\ HasKey(f.items, "weekly_threads")
    THEN f.items["weekly_threads"]
    ELSE EmptyDict

\* the file says the routine ran on this date
SaysRan(f, date) == f.kind = "dict" /\ HasKey(f.items, "last_run") /\ f.items["last_run"] = date

\* a create_post call of this invocation returned failure
SomePostFailed == calls.weekly # calls.weekly_ok \/ calls.daily > calls.daily_ok

\* create_post calls of this invocation that returned success
PostsSucceeded == Cardinality(calls.weekly_ok) + calls.daily_ok

\* the WEEKLY_THREADS entries of a weekday
EntriesOf(name) == {i \in 1 .. Len(WEEKLY_THREADS) : WEEKLY_THREADS[i].day = name}

\* C1: an invocation that is no dry run, on the date the state file names as
\* last_run, starts no browser, calls neither login nor create_post nor
\* reply_to_comments nor save_state, and leaves the file as it was.
C1_DuplicateRunIsInert ==
  (pc # "idle" /\ ~dry_run /\ SaysRan(filePre, today))
    => /\ pc = "done"
       /\ outcome = "skipped"
       /\ calls = NoCalls
       /\ browser = NoBrowser
       /\ file = filePre

C1_Witness ==
  pc = "done" /\ outcome = "skipped" /\ ~dry_run /\ SaysRan(filePre, today)

\* C2: when login returns False the run has posted nothing, replied to nothing
\* and not written the state, the file is what it was, and an invocation on the
\* same date that is no dry run is not skipped as a duplicate.
C2_LoginFailureLeavesRetry ==
  (pc = "done" /\ outcome = "login_failed")
    => /\ calls.weekly = {}
       /\ calls.daily = 0
       /\ calls.reply_to_comments = 0
       /\ calls.save_state = "no"
       /\ file = filePre
       /\ ~AlreadyRan(load_state(file).items, today, FALSE)

\* C3: a dry run calls neither setup_browser nor login and neither starts nor
\* drives a browser.
C3_DryRunOpensNoSession ==
  dry_run
    => /\ calls.setup_browser = 0
       /\ calls.login = 0
       /\ ~calls.driver_used
       /\ browser = NoBrowser

\* C4: a dry run leaves the state file as it was.
C4_DryRunKeepsState == dry_run => file = filePre

\* C5: when the routine is left, every browser session it started has been quit,
\* and none more than once.
C5_SessionReleased == pc = "done" => browser.quit = browser.opened /\ browser.quit <= 1

\* C6: after a successful login, the entries of WEEKLY_THREADS create_post has
\* been called for are the entries of today's weekday among those the loop has
\* passed, when the loop started before noon, and none otherwise; before the
\* login succeeds there is none.
C6_WeeklyAttempts ==
  LET due == IF calls.weekly_hour >= 0 /\ calls.weekly_hour < NoonHour
               THEN EntriesOf(DayName(today))
               ELSE {}
  IN /\ pc \in {"setup", "login"} => calls.weekly = {}
     /\ pc = "weekly" => calls.weekly = {i \in due : i < widx}
     /\ (pc \in {"daily", "reply", "persist"} \/ outcome = "complete") => calls.weekly = due
     /\ calls.weekly \subseteq due

C6_Witness ==
  /\ pc = "daily"
  /\ DayName(today) = "friday"
  /\ calls.weekly = {3}

\* C7: once a run that passed login is past the daily step, it has called
\* create_post for a daily post once if no weekly post succeeded or the hour is
\* at least 14, and not at all otherwise; before that step it has not, and it
\* never has more than once.
C7_DailyAttempts ==
  LET past == pc \in {"reply", "persist"} \/ calls.reply_to_comments > 0
             \/ outcome = "complete"
  IN /\ calls.daily <= 1
     /\ pc \in {"setup", "login", "weekly", "daily"} => calls.daily = 0
     /\ past => calls.daily = (IF calls.weekly_ok = {} \/ clock.hour >= AfternoonHour
                                 THEN 1 ELSE 0)

C7_Witness ==
  /\ pc = "reply"
  /\ calls.weekly_ok # {}
  /\ clock.hour >= AfternoonHour
  /\ calls.daily = 1

C9_OnlyPostedWeeklyIsLogged ==
  (pc \in {"finally", "done"} /\ ~dry_run /\ calls.save_state = "written")
    => \A d \in DOMAIN WeeklyLog(file) :
         (~HasKey(WeeklyLog(filePre), d) \/ WeeklyLog(filePre)[d] # WeeklyLog(file)[d])
           => \E i \in calls.weekly_ok : WEEKLY_THREADS[i].day = d

\* C10: a run in which a create_post call returned failure still takes the
\* daily step when it is due, calls reply_to_comments and save_state, and the
\* posts_made it writes is the number of create_post calls that succeeded.
C10_FailedPostDoesNotAbort ==
  (pc = "done" /\ SomePostFailed)
    => /\ calls.reply_to_comments = 1
       /\ calls.save_state # "no"
       /\ calls.save_state = "written" => file.items["posts_made"] = PostsSucceeded

\* C11: a run that is not skipped and whose login succeeded ends only after it
\* called save_state with last_run set to today, whatever the driver raised
\* while posting, pinning, loading the newest listing or replying.
C11_OnlyLoginIsFatal ==
  (pc = "done" /\ calls.weekly_hour >= 0)
    => /\ calls.save_state # "no"
       /\ HasKey(state, "last_run")
       /\ state["last_run"] = today

\* C12: whatever the state file holds that is no state object (no file, no
\* JSON, JSON that is no object), the invocation is not ended by loading it: it
\* is not skipped and it goes on to setup_browser.
C12_LoadIsNeverFatal ==
  (pc # "idle" /\ filePre.kind # "dict")
    => /\ outcome # "skipped"
       /\ pc = "done" => calls.setup_browser = 1

\* C13: in every state, a last_run in the state file is a date on which an
\* invocation passed login and came back from the weekly loop, the daily step
\* and reply_to_comments before it wrote; before the first such invocation the
\* file has no last_run.
C13_LastRunAfterFullRoutine ==
  (file.kind = "dict" /\ HasKey(file.items, "last_run"))
    => file.items["last_run"] \in history.passed

C13_Witness ==
  /\ pc = "done"
  /\ calls.save_state = "written"
  /\ SaysRan(file, today)
  /\ ~SaysRan(filePre, today)
  /\ today \in history.passed

\* C14 as stated: on a date with no dry run so far, once an invocation passed
\* login and finished the routine, every later invocation on that date is
\* skipped, also when that invocation's state write failed.
C14_FinishedRunStopsTheDay ==
  (pc # "idle" /\ ~dry_run /\ history.date \in {"saved", "unsaved"})
    => outcome = "skipped"

\* C14 as amended: on a date with no dry run so far, once an invocation finished
\* the routine and its state write succeeded, every later invocation on that
\* date is skipped and calls nothing.
C14_WrittenRunStopsTheDay ==
  (pc # "idle" /\ ~dry_run /\ history.date = "saved")
    => /\ outcome = "skipped"
       /\ calls = NoCalls
       /\ file = filePre

C14_Witness ==
  /\ pc = "done"
  /\ ~dry_run
  /\ history.date = "saved"
  /\ outcome = "skipped"
====
